---- MODULE Spec2Model ----
(***************************************************************************)
(* State-machine model of the TripHistory ledger view of the AI Travel     *)
(* Planner front end (src/unnamed/part_004, first component) together with *)
(* the expense / parse proxy routes and the backend behind them.           *)
(*                                                                         *)
(* React state is one variable per useState cell.  Every async handler is  *)
(* split at its awaits: one action for the part that runs up to the        *)
(* request, one for the backend processing the request, one for the        *)
(* continuation that handles the response.  Functional state updates       *)
(* (setX(prev => ...)) read the state at the time the continuation runs;   *)
(* values captured by the closure are stored in the request record.        *)
(***************************************************************************)
EXTENDS Integers, Sequences, FiniteSets, TLC

(***************************************************************************)
(* Nullable values: null is the empty sequence, a value v is <<v>>.        *)
(***************************************************************************)
Null == << >>
Some(v) == <<v>>
Coalesce(o, d) == IF o = Null THEN d ELSE o[1]

(***************************************************************************)
(* Bounds of the model.                                                    *)
(***************************************************************************)
MaxInflight == 2   \* requests in flight at the same time
MaxExpenses == 2   \* expense rows the backend ever creates
MaxOps == 2        \* ledger requests issued in a run of Spec
MaxSeqOps == 3     \* ledger requests issued in a run of SpecSeq
MaxCalls == 2      \* requests a proxy route sends on to the backend in a run
MaxVersions == 2   \* versions of a trip (1 + regenerations) in a run
MaxPlans == 2      \* itineraries generated in a run
MaxRows == 2       \* primary keys per table
MaxSwitchOps == 1  \* ledger requests in a run that switches trips
MaxSessions == 3   \* speech recognition sessions started in a run

Slots == 1..MaxInflight
WideSlots == 1..(MaxInflight + 1)
ExpenseIds == 1..MaxExpenses

(***************************************************************************)
(* The trips of the signed-in user.  Trip "A" has a known total_budget,    *)
(* trip "B" has none (trips.total_budget is a nullable numeric).           *)
(***************************************************************************)
TripIds == {"A", "B"}
TotalBudget == [t \in TripIds |-> IF t = "A" THEN Some(10000) ELSE Null]
TripCurrency == [t \in TripIds |-> IF t = "A" THEN Some("USD") ELSE Null]

(***************************************************************************)
(* Contents of an amount text field, and the JavaScript conversions        *)
(* Number(string) and number.toString() on them.  NaN is modelled by Null. *)
(* Number("") is 0 in JavaScript.                                          *)
(***************************************************************************)
AmountStrings == {"", "abc", "-1", "180", "200"}
NumericValues == {-1, 0, 180, 200}
NaN == Null
NumberOf(s) ==
  IF s = "" THEN Some(0)
  ELSE IF \E n \in NumericValues : ToString(n) = s
       THEN Some(CHOOSE n \in NumericValues : ToString(n) = s)
       ELSE NaN
NumToString(n) == ToString(n)

VARIABLES
  db,               \* backend: expense id -> Null | <<[trip, amount]>>
  nextId,           \* backend: next expense id to hand out
  trips,            \* useState trips: sequence of TripSummary
  selectedTrip,     \* useState selectedTrip: Null | <<TripDetail>>
  expenses,         \* useState expenses: sequence of ExpenseItem
  expenseError,     \* useState expenseError: Null | <<message>>
  detailError,      \* useState detailError
  draft,            \* useState draft (amount field)
  editingExpenseId, \* useState editingExpenseId: Null | <<id>>
  editDraft,        \* useState editDraft: Null | <<[amount]>>
  reqs,             \* requests in flight: slot -> Null | <<request>>
  isListening,      \* useState isListening
  parseLoading,     \* useState parseLoading
  voiceError,       \* useState voiceError: Null | <<message>>
  voiceTranscript,  \* useState voiceTranscript: Null | <<text>>
  voiceConfidence,  \* useState voiceConfidence: Null | <<number>>
  ops,              \* number of ledger requests issued so far (bounds the runs)
  tripVersion,      \* backend: trip id -> version of its itinerary and breakdown
  call,             \* proxy route: Null | <<the HTTP request being handled>>
  forwards,         \* proxy route: number of requests sent on to the backend
  planner,          \* PlannerForm: loading, result, error and its request
  home,             \* HomeClient: refresh token, focused trip, homepage map
  tripsTable,       \* schema: rows of table trips
  expensesTable,    \* schema: rows of table expenses
  rlsActor,         \* schema: Null | <<user who issued the last statement>>
  rlsSeen,          \* schema: the rows the last statement returned
  recognitionRef,   \* useRef recognitionRef: Null | <<session>>
  sessions,         \* speech recognition objects: session -> its state
  userId            \* prop userId of TripHistory: Null | <<user>>

ledgerVars == <<db, nextId, trips, selectedTrip, expenses, expenseError,
                detailError, draft, editingExpenseId, editDraft, reqs>>
voiceVars == <<isListening, parseLoading, voiceError, voiceTranscript,
               voiceConfidence>>
routeVars == <<call, forwards>>
plannerVars == <<planner, home>>
schemaVars == <<tripsTable, expensesTable, rlsActor, rlsSeen>>
speechVars == <<recognitionRef, sessions>>
vars == <<ledgerVars, voiceVars, ops, tripVersion, routeVars, plannerVars,
          schemaVars, speechVars, userId>>

(***************************************************************************)
(* Requests in flight.  A request record holds what the closure of the     *)
(* handler captured when it issued the request, the request payload, the   *)
(* stage ("sent", then "ok" or "fail" once the backend has answered) and   *)
(* the response body (a sequence of records).                              *)
(***************************************************************************)
BlankRequest ==
  [kind |-> "", trip |-> Null, exp |-> Null, amount |-> 0, editing |-> Null,
   currency |-> Null, payloadCurrency |-> "", stage |-> "sent", resp |-> << >>]
Request(kind, captured) ==
  [f \in DOMAIN BlankRequest |->
     IF f = "kind" THEN kind
     ELSE IF f \in DOMAIN captured THEN captured[f] ELSE BlankRequest[f]]

FreeSlots(rs) == {i \in DOMAIN rs : rs[i] = Null}
Issue(rs, req) ==
  LET i == CHOOSE j \in FreeSlots(rs) : \A k \in FreeSlots(rs) : j <= k
  IN  [rs EXCEPT ![i] = Some(req)]
InFlight(kinds) == {i \in DOMAIN reqs : reqs[i] # Null /\ reqs[i][1].kind \in kinds}
LedgerKinds == {"create", "update", "delete"}

(***************************************************************************)
(* Backend (FastAPI service, not part of the front-end sources): the       *)
(* expense rows and the aggregates derived from them.                      *)
(***************************************************************************)
RECURSIVE SumAmounts(_)
SumAmounts(items) ==
  IF items = << >> THEN 0 ELSE items[1].amount + SumAmounts(Tail(items))

RECURSIVE RowsFrom(_, _, _)
RowsFrom(d, t, i) ==
  IF i = 0 THEN << >>
  ELSE IF d[i] # Null /\ d[i][1].trip = t
       THEN <<[id |-> i, amount |-> d[i][1].amount]>> \o RowsFrom(d, t, i - 1)
       ELSE RowsFrom(d, t, i - 1)
ExpenseRows(d, t) == RowsFrom(d, t, MaxExpenses)

TotalExpenses(d, t) == SumAmounts(ExpenseRows(d, t))
RemainingBudget(d, t) ==
  IF TotalBudget[t] # Null
  THEN Some(TotalBudget[t][1] - TotalExpenses(d, t))
  ELSE Null

TripSummaryOf(d, t) ==
  [id |-> t, total_budget |-> TotalBudget[t], currency |-> TripCurrency[t],
   total_expenses |-> Some(TotalExpenses(d, t)),
   remaining_budget |-> RemainingBudget(d, t),
   budget_breakdown |-> tripVersion[t]]
TripDetailOf(d, t) ==
  [id |-> t, total_budget |-> TotalBudget[t], currency |-> TripCurrency[t],
   total_expenses |-> Some(TotalExpenses(d, t)),
   remaining_budget |-> RemainingBudget(d, t),
   budget_breakdown |-> tripVersion[t],
   generated_itinerary |-> Some(tripVersion[t])]
ListTrips(d) == <<TripSummaryOf(d, "A"), TripSummaryOf(d, "B")>>

(***************************************************************************)
(* Backend processing of one request, reached through the proxy routes.    *)
(* A request either is answered with a non-success status without effect   *)
(* (BackendFail) or is carried out atomically (BackendOk).                 *)
(***************************************************************************)
BackendResponse(d, id, r) ==
  CASE r.kind = "trips"    -> ListTrips(d)
    [] r.kind = "detail"   -> <<TripDetailOf(d, r.trip[1])>>
    [] r.kind = "expenses" -> ExpenseRows(d, r.trip[1])
    [] r.kind = "create"   -> <<[id |-> id, amount |-> r.amount]>>
    [] r.kind = "update"   -> <<[id |-> r.exp[1].id, amount |-> r.amount]>>
    [] OTHER               -> << >>

BackendAccepts(d, id, r) ==
  CASE r.kind = "create" -> r.amount >= 0
    [] r.kind = "update" -> d[r.exp[1].id] # Null /\ r.amount >= 0
    [] OTHER             -> TRUE

BackendWrite(d, id, r) ==
  CASE r.kind = "create" -> [d EXCEPT ![id] = Some([trip |-> r.trip[1], amount |-> r.amount])]
    [] r.kind = "update" -> [d EXCEPT ![r.exp[1].id] = Some([trip |-> d[r.exp[1].id][1].trip, amount |-> r.amount])]
    [] r.kind = "delete" -> [d EXCEPT ![r.exp[1].id] = Null]
    [] OTHER             -> d

\* regeneration of an existing trip: itinerary and breakdown are replaced
\* together (both are identified by the version number)
Regenerate(t) ==
  /\ tripVersion[t] < MaxVersions
  /\ tripVersion' = [tripVersion EXCEPT ![t] = @ + 1]
  /\ UNCHANGED <<ledgerVars, voiceVars, ops>>

BackendOk(i) ==
  /\ UNCHANGED ops
  /\ reqs[i] # Null
  /\ reqs[i][1].stage = "sent"
  /\ reqs[i][1].kind # "parse"
  /\ BackendAccepts(db, nextId, reqs[i][1])
  /\ db' = BackendWrite(db, nextId, reqs[i][1])
  /\ nextId' = IF reqs[i][1].kind = "create" THEN nextId + 1 ELSE nextId
  /\ reqs' = [reqs EXCEPT ![i] = Some([reqs[i][1] EXCEPT
                 !.stage = "ok", !.resp = BackendResponse(db', nextId, reqs[i][1])])]
  /\ UNCHANGED <<trips, selectedTrip, expenses, expenseError, detailError,
                 draft, editingExpenseId, editDraft, voiceVars>>

BackendFail(i) ==
  /\ UNCHANGED ops
  /\ reqs[i] # Null
  /\ reqs[i][1].stage = "sent"
  /\ reqs' = [reqs EXCEPT ![i] = Some([reqs[i][1] EXCEPT !.stage = "fail"])]
  /\ UNCHANGED <<db, nextId, trips, selectedTrip, expenses, expenseError,
                 detailError, draft, editingExpenseId, editDraft, voiceVars>>

(***************************************************************************)
(* TripHistory: derived values and pure helpers.                           *)
(***************************************************************************)
selectedTripId == IF selectedTrip = Null THEN Null ELSE Some(selectedTrip[1].id)

\* variant: a missing total_budget is defaulted to 0 (total_budget ?? 0)
DeriveRemaining_zeroDefault(trip) ==
  IF trip.remaining_budget # Null THEN trip.remaining_budget
  ELSE IF trip.total_budget # Null /\ trip.total_expenses # Null
       THEN Some(trip.total_budget[1] - trip.total_expenses[1])
       ELSE Some(Coalesce(trip.total_budget, 0))

\* trip.remaining_budget ?? (total_budget != null && total_expenses != null
\*   ? total_budget - total_expenses : total_budget ?? null)
DeriveRemaining(trip) ==
  IF trip.remaining_budget # Null THEN trip.remaining_budget
  ELSE IF trip.total_budget # Null /\ trip.total_expenses # Null
       THEN Some(trip.total_budget[1] - trip.total_expenses[1])
       ELSE trip.total_budget

\* variant: the new total is computed without the previous total, as from a
\* snapshot of selectedTrip taken before any expense was counted
applyExpenseDelta_lostUpdate(prev, delta) ==
  IF prev = Null THEN prev
  ELSE LET p == prev[1]
       IN  Some([p EXCEPT !.total_expenses = Some(delta),
                          !.remaining_budget =
                            IF p.total_budget # Null
                            THEN Some(p.total_budget[1] - delta) ELSE Null])

\* variant: total_expenses is adjusted, remaining_budget is left as it was
applyExpenseDelta_staleRemaining(prev, delta) ==
  IF prev = Null THEN prev
  ELSE Some([prev[1] EXCEPT
         !.total_expenses = Some(Coalesce(prev[1].total_expenses, 0) + delta)])

applyExpenseDelta(prev, delta) ==
  IF prev = Null THEN prev
  ELSE LET p == prev[1]
           newTotal == Coalesce(p.total_expenses, 0) + delta
           derivedRemaining ==
             IF p.remaining_budget # Null THEN Some(p.remaining_budget[1] - delta)
             ELSE IF p.total_budget # Null THEN Some(p.total_budget[1] - newTotal)
             ELSE Null
       IN  Some([p EXCEPT !.total_expenses = Some(newTotal),
                          !.remaining_budget = derivedRemaining])

\* the loadTrips effect, run after a render in which userId, refreshToken or
\* selectedTripId differs from the previous render
loadTrips(rs, capturedId) == Issue(rs, Request("trips", [trip |-> capturedId]))
AfterRender(rs, newId) ==
  IF newId # selectedTripId THEN loadTrips(rs, newId) ELSE rs
SlotsNeeded(newId) == IF newId # selectedTripId THEN 1 ELSE 0

(***************************************************************************)
(* Initial state: the component has mounted with a signed-in user, all     *)
(* state cells hold their useState defaults and the first loadTrips        *)
(* request has been sent.  The backend holds no expense yet, or one        *)
(* expense of trip "A" recorded in an earlier session.                     *)
(***************************************************************************)
\* PlannerForm and HomeClient after mount (useState defaults)
PlannerInit == [loading |-> FALSE, result |-> Null, error |-> Null, stage |-> "idle",
                resp |-> Null, inflight |-> 0]
HomeInit == [historyRefreshToken |-> 0, focusTripId |-> Null,
             latestMapTripId |-> Null, latestMapError |-> Null,
             latestMapLoading |-> FALSE, session |-> TRUE]

NoRows == [table |-> "none", rows |-> {}]

InitialRows ==
  { [i \in ExpenseIds |-> Null],
    [i \in ExpenseIds |-> IF i = 1 THEN Some([trip |-> "A", amount |-> 180]) ELSE Null] }

InitWith(slots) ==
  /\ db \in InitialRows
  /\ nextId = IF db[1] = Null THEN 1 ELSE 2
  /\ ops = 0
  /\ trips = << >>
  /\ selectedTrip = Null
  /\ expenses = << >>
  /\ expenseError = Null
  /\ detailError = Null
  /\ draft = [amount |-> "", currency |-> "CNY"]
  /\ editingExpenseId = Null
  /\ editDraft = Null
  /\ reqs = loadTrips([i \in slots |-> Null], Null)
  /\ isListening = FALSE
  /\ parseLoading = FALSE
  /\ voiceError = Null
  /\ voiceTranscript = Null
  /\ voiceConfidence = Null
  /\ tripVersion = [t \in TripIds |-> 1]
  /\ call = Null
  /\ forwards = 0
  /\ planner = PlannerInit
  /\ home = HomeInit
  /\ tripsTable = {}
  /\ expensesTable = {}
  /\ rlsActor = Null
  /\ rlsSeen = NoRows
  /\ recognitionRef = Null
  /\ sessions = [id \in 1..MaxSessions |-> "unused"]
  /\ userId = Some("u1")

Init == InitWith(Slots)
\* the same with room for one more request in flight
InitWide == InitWith(WideSlots)

(***************************************************************************)
(* loadTrips: the effect re-runs when the parent changes refreshToken.     *)
(***************************************************************************)
RefreshTokenChange ==
  /\ UNCHANGED ops
  /\ FreeSlots(reqs) # {}
  /\ reqs' = loadTrips(reqs, selectedTripId)
  /\ UNCHANGED <<db, nextId, trips, selectedTrip, expenses, expenseError,
                 detailError, draft, editingExpenseId, editDraft, voiceVars>>

MergeMatched(prev, matched) ==
  IF prev = Null THEN prev
  ELSE Some([prev[1] EXCEPT
         !.total_budget = matched.total_budget,
         !.currency = matched.currency,
         !.budget_breakdown = matched.budget_breakdown,
         !.total_expenses = matched.total_expenses,
         !.remaining_budget = DeriveRemaining(matched)])

Matched(data, id) == {k \in DOMAIN data : data[k].id = id}

LoadTripsResponse(i) ==
  /\ UNCHANGED ops
  /\ reqs[i] # Null
  /\ reqs[i][1].kind = "trips"
  /\ reqs[i][1].stage \in {"ok", "fail"}
  /\ LET r == reqs[i][1]
         data == r.resp
     IN  IF r.stage = "ok"
         THEN /\ trips' = data
              /\ selectedTrip' =
                   IF r.trip # Null /\ Matched(data, r.trip[1]) # {}
                   THEN MergeMatched(selectedTrip,
                          data[CHOOSE k \in Matched(data, r.trip[1]) : TRUE])
                   ELSE selectedTrip
         ELSE UNCHANGED <<trips, selectedTrip>>
  /\ reqs' = [reqs EXCEPT ![i] = Null]
  /\ UNCHANGED <<db, nextId, expenses, expenseError, detailError, draft,
                 editingExpenseId, editDraft, voiceVars>>

(***************************************************************************)
(* handleViewDetail, up to its first await, followed by the loadTrips      *)
(* effect when the selected trip id changed.                               *)
(***************************************************************************)
ViewedTrip(trip) ==
  [id |-> trip.id, total_budget |-> trip.total_budget, currency |-> trip.currency,
   total_expenses |-> trip.total_expenses,
   remaining_budget |-> DeriveRemaining(trip),
   budget_breakdown |-> trip.budget_breakdown,
   generated_itinerary |-> Null]

handleViewDetail(k) ==
  /\ UNCHANGED ops
  /\ k \in DOMAIN trips
  /\ Cardinality(FreeSlots(reqs)) >= 1 + SlotsNeeded(Some(trips[k].id))
  /\ selectedTrip' = Some(ViewedTrip(trips[k]))
  /\ isListening' = FALSE
  /\ voiceTranscript' = Null
  /\ voiceConfidence' = Null
  /\ voiceError' = Null
  /\ parseLoading' = FALSE
  /\ detailError' = Null
  /\ expenseError' = Null
  /\ editingExpenseId' = Null
  /\ editDraft' = Null
  /\ reqs' = AfterRender(Issue(reqs, Request("detail", [trip |-> Some(trips[k].id)])),
                         Some(trips[k].id))
  /\ UNCHANGED <<db, nextId, trips, expenses, draft>>

\* continuation after the trip detail request: setSelectedTrip(response.data)
\* or setDetailError, then the expenses request is sent
DetailResponse(i) ==
  /\ UNCHANGED ops
  /\ reqs[i] # Null
  /\ reqs[i][1].kind = "detail"
  /\ reqs[i][1].stage \in {"ok", "fail"}
  /\ LET r == reqs[i][1]
         next == IF r.stage = "ok" THEN Some(r.resp[1]) ELSE selectedTrip
         newId == Some(next[1].id)
         sent == [reqs EXCEPT ![i] = Some(Request("expenses", [trip |-> r.trip]))]
     IN  /\ selectedTrip' = next
         /\ detailError' = IF r.stage = "ok" THEN detailError ELSE Some("detail")
         /\ IF next = Null
            THEN /\ SlotsNeeded(Null) <= Cardinality(FreeSlots(sent))
                 /\ reqs' = AfterRender(sent, Null)
            ELSE /\ SlotsNeeded(newId) <= Cardinality(FreeSlots(sent))
                 /\ reqs' = AfterRender(sent, newId)
  /\ UNCHANGED <<db, nextId, trips, expenses, expenseError, draft,
                 editingExpenseId, editDraft, voiceVars>>

ExpensesResponse(i) ==
  /\ UNCHANGED ops
  /\ reqs[i] # Null
  /\ reqs[i][1].kind = "expenses"
  /\ reqs[i][1].stage \in {"ok", "fail"}
  /\ expenses' = IF reqs[i][1].stage = "ok" THEN reqs[i][1].resp ELSE expenses
  /\ expenseError' = IF reqs[i][1].stage = "ok" THEN expenseError ELSE Some("load")
  /\ reqs' = [reqs EXCEPT ![i] = Null]
  /\ UNCHANGED <<db, nextId, trips, selectedTrip, detailError, draft,
                 editingExpenseId, editDraft, voiceVars>>

\* the "collapse" button of the detail panel
Collapse ==
  /\ UNCHANGED ops
  /\ selectedTrip # Null
  /\ FreeSlots(reqs) # {}
  /\ selectedTrip' = Null
  /\ detailError' = Null
  /\ expenses' = << >>
  /\ expenseError' = Null
  /\ editingExpenseId' = Null
  /\ editDraft' = Null
  /\ voiceTranscript' = Null
  /\ voiceConfidence' = Null
  /\ voiceError' = Null
  /\ parseLoading' = FALSE
  /\ isListening' = FALSE
  /\ reqs' = AfterRender(reqs, Null)
  /\ UNCHANGED <<db, nextId, trips, draft>>

(***************************************************************************)
(* The expense form: typing into the amount field, handleExpenseSubmit     *)
(* and the continuation after POST /api/expenses.                          *)
(***************************************************************************)
SetDraftAmount(v) ==
  /\ UNCHANGED ops
  /\ selectedTrip # Null
  /\ draft.amount # v
  /\ draft' = [draft EXCEPT !.amount = v]
  /\ UNCHANGED <<db, nextId, trips, selectedTrip, expenses, expenseError,
                 detailError, editingExpenseId, editDraft, reqs, voiceVars>>

\* what can be typed into the currency field, and
\* event.target.value.toUpperCase().slice(0, 3) on it
CurrencyInputs == {"", "usd", "usdt", "CNY"}
UpperSlice3(v) == IF v \in {"usd", "usdt"} THEN "USD" ELSE v

SetDraftCurrency(v) ==
  /\ UNCHANGED ops
  /\ selectedTrip # Null
  /\ draft.currency # UpperSlice3(v)
  /\ draft' = [draft EXCEPT !.currency = UpperSlice3(v)]
  /\ UNCHANGED <<db, nextId, trips, selectedTrip, expenses, expenseError,
                 detailError, editingExpenseId, editDraft, reqs, voiceVars>>

\* currency: draft.currency || "CNY"
PayloadCurrency(d) == IF d.currency # "" THEN d.currency ELSE "CNY"

\* Number.isNaN(amountValue) || amountValue < 0
InvalidAmount(amountValue) == amountValue = NaN \/ amountValue[1] < 0

CreatesSent == {i \in InFlight({"create"}) : reqs[i][1].stage = "sent"}

handleExpenseSubmit ==
  /\ selectedTrip # Null
  /\ LET amountValue == NumberOf(draft.amount)
     IN  IF InvalidAmount(amountValue)
         THEN /\ expenseError' = Some("invalid")
              /\ UNCHANGED <<reqs, ops>>
         ELSE /\ FreeSlots(reqs) # {}
              /\ nextId + Cardinality(CreatesSent) <= MaxExpenses
              /\ reqs' = Issue(reqs, Request("create",
                            [trip |-> selectedTripId, amount |-> amountValue[1],
                             payloadCurrency |-> PayloadCurrency(draft)]))
              /\ ops' = ops + 1
              /\ UNCHANGED expenseError
  /\ UNCHANGED <<db, nextId, trips, selectedTrip, expenses, detailError, draft,
                 editingExpenseId, editDraft, voiceVars>>

\* variant: the row is inserted optimistically from the payload and not
\* removed when the request fails
ExpensesAfterCreate_optimistic(prev, r) ==
  IF r.stage = "ok" THEN <<r.resp[1]>> \o prev
  ELSE <<[id |-> 0, amount |-> r.amount]>> \o prev

\* try { setExpenses((prev) => [response.data, ...prev]) } catch { }
ExpensesAfterCreate(prev, r) ==
  IF r.stage = "ok" THEN <<r.resp[1]>> \o prev ELSE prev

CreateResponse(i) ==
  /\ UNCHANGED ops
  /\ reqs[i] # Null
  /\ reqs[i][1].kind = "create"
  /\ reqs[i][1].stage \in {"ok", "fail"}
  /\ expenses' = ExpensesAfterCreate(expenses, reqs[i][1])
  /\ LET r == reqs[i][1]
     IN  IF r.stage = "ok"
         THEN /\ draft' = [draft EXCEPT !.amount = ""]
              /\ expenseError' = Null
              /\ voiceTranscript' = Null
              /\ voiceConfidence' = Null
              /\ voiceError' = Null
              /\ selectedTrip' = applyExpenseDelta(selectedTrip, r.resp[1].amount)
         ELSE /\ expenseError' = Some("create")
              /\ UNCHANGED <<draft, voiceTranscript, voiceConfidence,
                             voiceError, selectedTrip>>
  /\ reqs' = [reqs EXCEPT ![i] = Null]
  /\ UNCHANGED <<db, nextId, trips, detailError, editingExpenseId, editDraft,
                 isListening, parseLoading>>

(***************************************************************************)
(* Editing a row: handleStartEdit, the edit form, resetEditState,          *)
(* handleExpenseUpdate and the continuation after PATCH /api/expenses.     *)
(***************************************************************************)
RowInEdit(expense) == editingExpenseId = Some(expense.id) /\ editDraft # Null

handleStartEdit(k) ==
  /\ UNCHANGED ops
  /\ selectedTrip # Null
  /\ k \in DOMAIN expenses
  /\ ~RowInEdit(expenses[k])
  /\ editingExpenseId' = Some(expenses[k].id)
  /\ editDraft' = Some([amount |-> NumToString(expenses[k].amount)])
  /\ UNCHANGED <<db, nextId, trips, selectedTrip, expenses, expenseError,
                 detailError, draft, reqs, voiceVars>>

SetEditDraftAmount(v) ==
  /\ UNCHANGED ops
  /\ selectedTrip # Null
  /\ \E k \in DOMAIN expenses : RowInEdit(expenses[k])
  /\ editDraft[1].amount # v
  /\ editDraft' = Some([editDraft[1] EXCEPT !.amount = v])
  /\ UNCHANGED <<db, nextId, trips, selectedTrip, expenses, expenseError,
                 detailError, draft, editingExpenseId, reqs, voiceVars>>

resetEditState ==
  /\ UNCHANGED ops
  /\ selectedTrip # Null
  /\ \E k \in DOMAIN expenses : RowInEdit(expenses[k])
  /\ editingExpenseId' = Null
  /\ editDraft' = Null
  /\ UNCHANGED <<db, nextId, trips, selectedTrip, expenses, expenseError,
                 detailError, draft, reqs, voiceVars>>

handleExpenseUpdate(k) ==
  /\ selectedTrip # Null
  /\ k \in DOMAIN expenses
  /\ RowInEdit(expenses[k])
  /\ LET amountValue == NumberOf(editDraft[1].amount)
     IN  IF InvalidAmount(amountValue)
         THEN /\ expenseError' = Some("invalid")
              /\ UNCHANGED <<reqs, ops>>
         ELSE /\ FreeSlots(reqs) # {}
              /\ reqs' = Issue(reqs, Request("update",
                            [exp |-> Some(expenses[k]), amount |-> amountValue[1]]))
              /\ ops' = ops + 1
              /\ UNCHANGED expenseError
  /\ UNCHANGED <<db, nextId, trips, selectedTrip, expenses, detailError, draft,
                 editingExpenseId, editDraft, voiceVars>>

\* variant: the old amount is removed, the new one is not added
UpdateDelta_oldRemoved(updated, expense) == 0 - expense.amount

\* updated.amount - expense.amount
UpdateDelta(updated, expense) == updated.amount - expense.amount

ReplaceItem(items, id, updated) ==
  [k \in DOMAIN items |-> IF items[k].id = id THEN updated ELSE items[k]]

UpdateResponse(i) ==
  /\ UNCHANGED ops
  /\ reqs[i] # Null
  /\ reqs[i][1].kind = "update"
  /\ reqs[i][1].stage \in {"ok", "fail"}
  /\ LET r == reqs[i][1]
         expense == r.exp[1]
     IN  IF r.stage = "ok"
         THEN /\ expenses' = ReplaceItem(expenses, expense.id, r.resp[1])
              /\ selectedTrip' =
                   applyExpenseDelta(selectedTrip, UpdateDelta(r.resp[1], expense))
              /\ editingExpenseId' = Null
              /\ editDraft' = Null
              /\ expenseError' = Null
         ELSE /\ expenseError' = Some("update")
              /\ UNCHANGED <<expenses, selectedTrip, editingExpenseId, editDraft>>
  /\ reqs' = [reqs EXCEPT ![i] = Null]
  /\ UNCHANGED <<db, nextId, trips, detailError, draft, voiceVars>>

(***************************************************************************)
(* handleExpenseDelete and the continuation after DELETE /api/expenses.    *)
(* The delete button is rendered on rows that are not in edit mode; the    *)
(* closure keeps the row and the editingExpenseId of that render.          *)
(***************************************************************************)
handleExpenseDelete(k) ==
  /\ selectedTrip # Null
  /\ k \in DOMAIN expenses
  /\ ~RowInEdit(expenses[k])
  /\ FreeSlots(reqs) # {}
  /\ reqs' = Issue(reqs, Request("delete",
                [exp |-> Some(expenses[k]), editing |-> editingExpenseId]))
  /\ ops' = ops + 1
  /\ UNCHANGED <<db, nextId, trips, selectedTrip, expenses, expenseError,
                 detailError, draft, editingExpenseId, editDraft, voiceVars>>

RemoveItem(items, id) == SelectSeq(items, LAMBDA item : item.id # id)

DeleteResponse(i) ==
  /\ UNCHANGED ops
  /\ reqs[i] # Null
  /\ reqs[i][1].kind = "delete"
  /\ reqs[i][1].stage \in {"ok", "fail"}
  /\ LET r == reqs[i][1]
         expense == r.exp[1]
     IN  IF r.stage = "ok"
         THEN /\ expenses' = RemoveItem(expenses, expense.id)
              /\ selectedTrip' = applyExpenseDelta(selectedTrip, 0 - expense.amount)
              /\ IF r.editing = Some(expense.id)
                 THEN editingExpenseId' = Null /\ editDraft' = Null
                 ELSE UNCHANGED <<editingExpenseId, editDraft>>
              /\ expenseError' = Null
         ELSE /\ expenseError' = Some("delete")
              /\ UNCHANGED <<expenses, selectedTrip, editingExpenseId, editDraft>>
  /\ reqs' = [reqs EXCEPT ![i] = Null]
  /\ UNCHANGED <<db, nextId, trips, detailError, draft, voiceVars>>

(***************************************************************************)
(* Voice entry.  The voice button toggles a speech-recognition session;    *)
(* its onresult callback hands the transcript to parseVoiceContent, which  *)
(* posts it to /api/expenses/parse and prefills the draft from the answer. *)
(***************************************************************************)
Transcripts == {"dinner"}

\* string.toUpperCase() on the currency strings of the model
CurrencyStrings == {"", "CNY", "usd", "USD", "usdt", "USDT"}
ToUpperCase(c) == IF c = "usd" THEN "USD" ELSE IF c = "usdt" THEN "USDT" ELSE c
StringLength(c) == IF c = "" THEN 0 ELSE IF c \in {"usdt", "USDT"} THEN 4 ELSE 3

\* answers of the language backend: every field independently nullable;
\* confidence is a number, held here in thousandths (870 is 0.87)
ParseCandidates ==
  { [amount |-> Null,      currency |-> Null,        confidence |-> Null],
    [amount |-> Null,      currency |-> Some("usd"), confidence |-> Some(870)],
    [amount |-> Some(180), currency |-> Some("usd"), confidence |-> Some(400)],
    [amount |-> Some(-1),  currency |-> Null,        confidence |-> Null] }

handleVoiceStart ==
  /\ UNCHANGED ops
  /\ selectedTrip # Null
  /\ ~isListening
  /\ ~parseLoading
  /\ voiceError' = Null
  /\ voiceTranscript' = Null
  /\ voiceConfidence' = Null
  /\ isListening' = TRUE
  /\ UNCHANGED <<ledgerVars, parseLoading>>

handleVoiceStop ==
  /\ UNCHANGED ops
  /\ selectedTrip # Null
  /\ isListening
  /\ isListening' = FALSE
  /\ UNCHANGED <<ledgerVars, parseLoading, voiceError, voiceTranscript,
                 voiceConfidence>>

\* recognition.onresult with a non-empty transcript, and parseVoiceContent
\* up to its await
parseVoiceContent(collected) ==
  /\ UNCHANGED ops
  /\ isListening
  /\ FreeSlots(reqs) # {}
  /\ voiceTranscript' = Some(collected)
  /\ isListening' = FALSE
  /\ parseLoading' = TRUE
  /\ voiceError' = Null
  /\ reqs' = Issue(reqs, Request("parse",
                [trip |-> selectedTripId,
                 currency |-> IF selectedTrip = Null THEN Null
                              ELSE selectedTrip[1].currency]))
  /\ UNCHANGED <<db, nextId, trips, selectedTrip, expenses, expenseError,
                 detailError, draft, editingExpenseId, editDraft, voiceConfidence>>

\* POST /api/expenses/parse: the route forwards the body and returns the
\* backend's answer unchanged, or its status when it is not ok
ParseBackendOk(i, candidate) ==
  /\ UNCHANGED ops
  /\ reqs[i] # Null
  /\ reqs[i][1].kind = "parse"
  /\ reqs[i][1].stage = "sent"
  /\ reqs' = [reqs EXCEPT ![i] = Some([reqs[i][1] EXCEPT
                 !.stage = "ok", !.resp = <<candidate>>])]
  /\ UNCHANGED <<db, nextId, trips, selectedTrip, expenses, expenseError,
                 detailError, draft, editingExpenseId, editDraft, voiceVars>>

\* variant: a missing amount is coerced to 0 ((parsed.amount ?? 0).toString())
PrefillDraft_zeroAmount(prev, parsed, selectedTripCurrency) ==
  LET currencySource ==
        IF parsed.currency # Null THEN parsed.currency[1]
        ELSE IF prev.currency # "" THEN prev.currency
        ELSE IF selectedTripCurrency # Null /\ selectedTripCurrency[1] # ""
             THEN selectedTripCurrency[1]
             ELSE "CNY"
  IN  [amount |-> NumToString(Coalesce(parsed.amount, 0)),
       currency |-> IF currencySource # "" THEN ToUpperCase(currencySource) ELSE "CNY"]

\* the setDraft updater of parseVoiceContent
PrefillDraft(prev, parsed, selectedTripCurrency) ==
  LET amountValue ==
        IF parsed.amount # Null THEN NumToString(parsed.amount[1]) ELSE prev.amount
      currencySource ==
        IF parsed.currency # Null THEN parsed.currency[1]
        ELSE IF prev.currency # "" THEN prev.currency
        ELSE IF selectedTripCurrency # Null /\ selectedTripCurrency[1] # ""
             THEN selectedTripCurrency[1]
             ELSE "CNY"
      normalizedCurrency ==
        IF currencySource # "" THEN ToUpperCase(currencySource) ELSE "CNY"
  IN  [amount |-> amountValue, currency |-> normalizedCurrency]

\* variant: a failed parse is handled like an empty answer with amount 0
DraftAfterParse_failureAsZero(prev, r) ==
  IF r.stage = "ok" THEN PrefillDraft(prev, r.resp[1], r.currency)
  ELSE [prev EXCEPT !.amount = "0"]

\* try { ...; setDraft((prev) => ...) } catch { } of parseVoiceContent
DraftAfterParse(prev, r) ==
  IF r.stage = "ok" THEN PrefillDraft(prev, r.resp[1], r.currency) ELSE prev

ParseResponse(i) ==
  /\ UNCHANGED ops
  /\ reqs[i] # Null
  /\ reqs[i][1].kind = "parse"
  /\ reqs[i][1].stage \in {"ok", "fail"}
  /\ draft' = DraftAfterParse(draft, reqs[i][1])
  /\ LET r == reqs[i][1]
     IN  IF r.stage = "ok"
         THEN /\ voiceConfidence' = r.resp[1].confidence
              /\ voiceError' = Null
         ELSE /\ voiceError' = Some("parse")
              /\ UNCHANGED voiceConfidence
  /\ parseLoading' = FALSE
  /\ reqs' = [reqs EXCEPT ![i] = Null]
  /\ UNCHANGED <<db, nextId, trips, selectedTrip, expenses, expenseError,
                 detailError, editingExpenseId, editDraft, isListening,
                 voiceTranscript>>

\* variant: the confidence is shown as a percentage without clamping
voiceConfidenceDisplay_unclamped ==
  IF voiceConfidence # Null THEN Some((voiceConfidence[1] + 5) \div 10) ELSE Null

\* Math.min(Math.max(v, 0), 1) and Math.round(v * 100) on thousandths
Clamp01(v) == IF v < 0 THEN 0 ELSE IF v > 1000 THEN 1000 ELSE v
RoundPercent(v) == (v + 5) \div 10

\* the percentage rendered after the transcript
voiceConfidenceDisplay ==
  IF voiceConfidence # Null THEN Some(RoundPercent(Clamp01(voiceConfidence[1])))
  ELSE Null

\* answers of the language backend with currency strings and confidences
\* of every shape
PrefillCandidates ==
  {[amount |-> Null, currency |-> cur, confidence |-> conf] :
     cur \in {Null, Some(""), Some("usd"), Some("usdt")},
     conf \in {Null, Some(-200), Some(875), Some(1500)}}

\* the state outside the TripHistory component and its backend rows
outsideTripHistory ==
  <<tripVersion, routeVars, plannerVars, schemaVars, speechVars, userId>>

(***************************************************************************)
(* Specifications.                                                         *)
(*                                                                         *)
(* Spec: the user opens one trip and works on its ledger with up to        *)
(* MaxInflight requests in flight at once.  SpecSeq: ledger operations one *)
(* at a time (a new operation starts when no request is in flight), with   *)
(* every kind of text in the amount fields.  SpecVoice: voice entry and    *)
(* the expense form.                                                       *)
(***************************************************************************)
Backend ==
  \E i \in Slots :
    \/ BackendOk(i)
    \/ BackendFail(i)

OpenTrip ==
  \/ \E i \in Slots : LoadTripsResponse(i)
  \/ \E k \in 1..Cardinality(TripIds) : selectedTrip = Null /\ handleViewDetail(k)
  \/ \E i \in Slots : DetailResponse(i)
  \/ \E i \in Slots : ExpensesResponse(i)

LedgerResponses ==
  \/ \E i \in Slots : CreateResponse(i)
  \/ \E i \in Slots : UpdateResponse(i)
  \/ \E i \in Slots : DeleteResponse(i)

EditForm(inputs) ==
  \/ \E k \in 1..Len(expenses) : handleStartEdit(k)
  \/ \E v \in inputs : SetEditDraftAmount(v)
  \/ resetEditState

LedgerRequests ==
  \/ handleExpenseSubmit
  \/ \E k \in 1..Len(expenses) : handleExpenseUpdate(k)
  \/ \E k \in 1..Len(expenses) : handleExpenseDelete(k)

Next ==
  /\ UNCHANGED outsideTripHistory
  /\ \/ Backend
     \/ OpenTrip
     \/ \E v \in {"180", "200"} : SetDraftAmount(v)
     \/ EditForm({"200"})
     \/ ops < MaxOps /\ LedgerRequests
     \/ LedgerResponses

Spec == Init /\ [][Next]_vars

Idle == \A i \in Slots : reqs[i] = Null

SeqNext ==
  /\ UNCHANGED outsideTripHistory
  /\ \/ Backend
     \/ OpenTrip
     \/ \E v \in {"180", "200"} : SetDraftAmount(v)
     \/ EditForm({"200"})
     \/ Idle /\ ops < MaxSeqOps /\ LedgerRequests
     \/ LedgerResponses

SpecSeq == Init /\ [][SeqNext]_vars

FormNext ==
  /\ UNCHANGED outsideTripHistory
  /\ \/ Backend
     \/ OpenTrip
     \/ \E v \in AmountStrings : SetDraftAmount(v)
     \/ EditForm(AmountStrings)
     \/ Idle /\ ops < MaxOps /\ LedgerRequests
     \/ LedgerResponses

SpecForm == Init /\ [][FormNext]_vars

VoiceNext ==
  /\ UNCHANGED outsideTripHistory
  /\ \/ Backend
     \/ OpenTrip
     \/ \E v \in {"200"} : SetDraftAmount(v)
     \/ handleVoiceStart
     \/ handleVoiceStop
     \/ \E t \in Transcripts : parseVoiceContent(t)
     \/ \E i \in Slots : \E c \in ParseCandidates : ParseBackendOk(i, c)
     \/ \E i \in Slots : ParseResponse(i)
     \/ Idle /\ ops < MaxOps /\ handleExpenseSubmit
     \/ \E i \in Slots : CreateResponse(i)

SpecVoice == Init /\ [][VoiceNext]_vars

\* the trip list and one trip's detail are read while the backend
\* regenerates trips
RegenNext ==
  /\ UNCHANGED <<routeVars, plannerVars, schemaVars, speechVars, userId>>
  /\ \/ UNCHANGED tripVersion /\ Backend
     \/ UNCHANGED tripVersion /\ OpenTrip
     \/ UNCHANGED tripVersion /\ RefreshTokenChange
     \/ \E t \in TripIds : Regenerate(t)

SpecRegen == Init /\ [][RegenNext]_vars

\* voice entry with the detail panel collapsed and re-opened at any time
AbandonNext ==
  /\ UNCHANGED outsideTripHistory
  /\ \/ Backend
     \/ OpenTrip
     \/ Collapse
     \/ \E v \in {"200"} : SetDraftAmount(v)
     \/ handleVoiceStart
     \/ handleVoiceStop
     \/ \E t \in Transcripts : parseVoiceContent(t)
     \/ \E i \in Slots : \E c \in ParseCandidates : ParseBackendOk(i, c)
     \/ \E i \in Slots : ParseResponse(i)

SpecAbandon == Init /\ [][AbandonNext]_vars

\* the expense form with its currency field edited
CurrencyNext ==
  /\ UNCHANGED outsideTripHistory
  /\ \/ Backend
     \/ OpenTrip
     \/ \E v \in {"200"} : SetDraftAmount(v)
     \/ \E v \in CurrencyInputs : SetDraftCurrency(v)
     \/ ops < MaxOps /\ handleExpenseSubmit
     \/ \E i \in Slots : CreateResponse(i)

SpecCurrency == Init /\ [][CurrencyNext]_vars

\* the user opens one trip after the other, and collapses the panel, while
\* requests are in flight
SwitchNext ==
  /\ UNCHANGED outsideTripHistory
  /\ \/ \E i \in WideSlots : BackendOk(i)
     \/ \E i \in WideSlots : BackendFail(i)
     \/ \E i \in WideSlots : LoadTripsResponse(i)
     \/ \E k \in 1..Cardinality(TripIds) :
          /\ k \in DOMAIN trips
          /\ selectedTripId # Some(trips[k].id)
          /\ handleViewDetail(k)
     \/ \E i \in WideSlots : DetailResponse(i)
     \/ \E i \in WideSlots : ExpensesResponse(i)
     \/ Collapse

SpecSwitch == InitWide /\ [][SwitchNext]_vars

\* the user adds an expense and opens another trip while the request is
\* in flight
SwitchLedgerNext ==
  /\ UNCHANGED outsideTripHistory
  /\ \/ \E i \in WideSlots : BackendOk(i)
     \/ \E i \in WideSlots : LoadTripsResponse(i)
     \/ \E k \in 1..Cardinality(TripIds) :
          /\ k \in DOMAIN trips
          /\ selectedTripId # Some(trips[k].id)
          /\ handleViewDetail(k)
     \/ \E i \in WideSlots : DetailResponse(i)
     \/ \E i \in WideSlots : ExpensesResponse(i)
     \/ \E v \in {"200"} : SetDraftAmount(v)
     \/ ops < MaxSwitchOps /\ handleExpenseSubmit
     \/ \E i \in WideSlots : CreateResponse(i)

SpecSwitchLedger == InitWide /\ [][SwitchLedgerNext]_vars

\* the parent refreshes the trip list while the user adds an expense to
\* the trip whose detail and expenses have been loaded
RefreshNext ==
  /\ UNCHANGED outsideTripHistory
  /\ \/ Backend
     \/ OpenTrip
     \/ RefreshTokenChange
     \/ \E v \in {"200"} : SetDraftAmount(v)
     \/ /\ InFlight({"detail", "expenses"}) = {}
        /\ ops < MaxSwitchOps
        /\ handleExpenseSubmit
     \/ \E i \in Slots : CreateResponse(i)

SpecRefresh == Init /\ [][RefreshNext]_vars

\* the edit form of a loaded trip is submitted again and again, also
\* before the response of the previous submit has been handled
OverlapNext ==
  /\ UNCHANGED outsideTripHistory
  /\ \/ Backend
     \/ OpenTrip
     \/ InFlight({"detail", "expenses", "trips"}) = {} /\ EditForm({"200", "300"})
     \/ /\ InFlight({"detail", "expenses", "trips"}) = {}
        /\ ops < MaxOps
        /\ \E k \in 1..Len(expenses) : handleExpenseUpdate(k)
     \/ \E i \in Slots : UpdateResponse(i)

SpecOverlap == Init /\ [][OverlapNext]_vars

\* voice prefill and the currency field, with answers of every shape
PrefillNext ==
  /\ UNCHANGED outsideTripHistory
  /\ \/ Backend
     \/ OpenTrip
     \/ \E v \in CurrencyInputs : SetDraftCurrency(v)
     \/ handleVoiceStart
     \/ handleVoiceStop
     \/ \E t \in Transcripts : parseVoiceContent(t)
     \/ \E i \in Slots : \E c \in PrefillCandidates : ParseBackendOk(i, c)
     \/ \E i \in Slots : ParseResponse(i)

SpecPrefill == Init /\ [][PrefillNext]_vars

(***************************************************************************)
(* The proxy routes (Next.js route handlers).  A handler reads the         *)
(* identifiers of the request, answers 400 when one it requires is         *)
(* missing, otherwise sends the request on to the backend (fetch) and      *)
(* answers with the backend's status when that is not ok, else with the    *)
(* backend's payload.                                                      *)
(***************************************************************************)
Routes == {"trips.GET", "trip.GET", "map.GET", "itineraries.POST",
           "expenses.GET", "expenses.POST", "expenses.PATCH",
           "expenses.DELETE", "parse.POST"}

\* a query or body parameter: absent, the empty string or a value
Params(values) == {Null, Some("")} \cup {Some(v) : v \in values}

\* the `content` member of a parse request body
Absent == [type |-> "undefined", text |-> ""]
Contents == {Absent,
             [type |-> "number", text |-> "5"],
             [type |-> "string", text |-> ""],
             [type |-> "string", text |-> "  "],
             [type |-> "string", text |-> " dinner 180 "]}

\* String.prototype.trim on the texts of the model
Trim(text) ==
  CASE text = "  " -> ""
    [] text = " dinner 180 " -> "dinner 180"
    [] OTHER -> text

\* !x for a parameter read with searchParams.get or destructured from the body
Falsy(param) == param = Null \/ param = Some("")

\* variant: the identifier of the trip or expense is not looked at
MissingIdentifiers_userOnly(c) == Falsy(c.userId)

\* the guard at the head of each handler
MissingIdentifiers(c) ==
  CASE c.route = "trips.GET" -> Falsy(c.userId)
    [] c.route \in {"trip.GET", "map.GET", "expenses.GET", "expenses.POST"} ->
         Falsy(c.userId) \/ Falsy(c.tripId)
    [] c.route \in {"expenses.PATCH", "expenses.DELETE"} ->
         Falsy(c.userId) \/ Falsy(c.expenseId)
    [] c.route = "parse.POST" ->
         \/ c.content.type = "undefined"
         \/ c.content.type = "string" /\ c.content.text = ""
         \/ c.content.type # "string"
    [] OTHER -> FALSE

\* Response.ok
Ok(status) == status >= 200 /\ status <= 299

\* variant: DELETE answers 204 whatever the backend said
RouteStatus_deleteAlways204(route, backendStatus) ==
  IF route = "expenses.DELETE" THEN 204
  ELSE IF ~Ok(backendStatus) THEN backendStatus
  ELSE IF route = "expenses.POST" THEN 201
  ELSE 200

\* variant: a backend failure is reported as 500 on the trip routes
RouteStatus_notFoundAs500(route, backendStatus) ==
  IF ~Ok(backendStatus)
  THEN IF route \in {"trip.GET", "expenses.PATCH"} THEN 500 ELSE backendStatus
  ELSE IF route = "expenses.POST" THEN 201
  ELSE IF route = "expenses.DELETE" THEN 204
  ELSE 200

\* the status a handler answers with once the backend has responded
RouteStatus(route, backendStatus) ==
  IF route = "expenses.DELETE"
  THEN IF ~Ok(backendStatus) /\ backendStatus # 204 THEN backendStatus ELSE 204
  ELSE IF ~Ok(backendStatus) THEN backendStatus
  ELSE IF route = "expenses.POST" THEN 201
  ELSE 200

\* the body a handler answers with
RouteBody(route, backendStatus) ==
  IF ~Ok(backendStatus) THEN "message"
  ELSE IF route = "expenses.DELETE" THEN "empty"
  ELSE "payload"

HttpRequests ==
  [route : Routes, userId : Params({"u1"}), tripId : Params({"A"}),
   expenseId : Params({"1"}), content : Contents]

\* only the parameters a route reads vary
Relevant(c) ==
  /\ c.route \notin {"trip.GET", "map.GET", "expenses.GET", "expenses.POST"}
       => c.tripId = Null
  /\ c.route \notin {"expenses.PATCH", "expenses.DELETE"} => c.expenseId = Null
  /\ c.route # "parse.POST" => c.content = Absent
  /\ c.route \in {"parse.POST", "itineraries.POST"} => c.userId = Null

RouteReceive(c) ==
  /\ IF call = Null THEN TRUE ELSE call[1].stage = "answered"
  /\ Relevant(c)
  /\ call' = Some([request |-> c, stage |-> "received", backendStatus |-> 0,
                   status |-> 0, body |-> ""])
  /\ UNCHANGED <<forwards, db, nextId>>

\* the handler up to its fetch
RouteHandle ==
  /\ call # Null
  /\ call[1].stage = "received"
  /\ IF MissingIdentifiers(call[1].request)
     THEN /\ call' = Some([call[1] EXCEPT !.stage = "answered", !.status = 400,
                                          !.body = "message"])
          /\ UNCHANGED forwards
     ELSE /\ forwards < MaxCalls
          /\ call' = Some([call[1] EXCEPT !.stage = "forwarded"])
          /\ forwards' = forwards + 1
  /\ UNCHANGED <<db, nextId>>

BackendStatuses == {200, 201, 204, 400, 404, 500}

\* the row an ok answer of the backend writes, if any
RouteBackendWrite(c, d, id) ==
  CASE c.route = "expenses.POST" ->
         [d EXCEPT ![id] = Some([trip |-> c.tripId[1], amount |-> 180])]
    [] c.route = "expenses.PATCH" /\ d[1] # Null ->
         [d EXCEPT ![1] = Some([trip |-> d[1][1].trip, amount |-> 200])]
    [] c.route = "expenses.DELETE" -> [d EXCEPT ![1] = Null]
    [] OTHER -> d

\* the backend answers the request sent on to it; only an ok answer writes
RouteBackend(status) ==
  /\ call # Null
  /\ call[1].stage = "forwarded"
  /\ LET c == call[1].request
     IN  /\ (Ok(status) /\ c.route = "expenses.POST") => nextId <= MaxExpenses
         /\ (Ok(status) /\ c.route = "expenses.PATCH") => db[1] # Null
         /\ (Ok(status) /\ c.route = "parse.POST") => Trim(c.content.text) # ""
         /\ db' = IF Ok(status) THEN RouteBackendWrite(c, db, nextId) ELSE db
         /\ nextId' = IF Ok(status) /\ c.route = "expenses.POST"
                      THEN nextId + 1 ELSE nextId
  /\ call' = Some([call[1] EXCEPT !.stage = "responded", !.backendStatus = status])
  /\ UNCHANGED forwards

\* the handler after its fetch
RouteRespond ==
  /\ call # Null
  /\ call[1].stage = "responded"
  /\ call' = Some([call[1] EXCEPT
                     !.stage = "answered",
                     !.status = RouteStatus(call[1].request.route, call[1].backendStatus),
                     !.body = RouteBody(call[1].request.route, call[1].backendStatus)])
  /\ UNCHANGED <<forwards, db, nextId>>

RoutesNext ==
  /\ UNCHANGED <<trips, selectedTrip, expenses, expenseError, detailError, draft,
                 editingExpenseId, editDraft, reqs, voiceVars, ops, tripVersion,
                 plannerVars, schemaVars, speechVars, userId>>
  /\ \/ \E c \in HttpRequests : RouteReceive(c)
     \/ RouteHandle
     \/ \E status \in BackendStatuses : RouteBackend(status)
     \/ RouteRespond

SpecRoutes == Init /\ [][RoutesNext]_vars

(***************************************************************************)
(* PlannerForm and HomeClient.  handleSubmit posts the intent to           *)
(* /api/itineraries; its continuation stores the response and calls        *)
(* onPlanCreated, which HomeClient uses to refresh the history and to      *)
(* point the homepage map at the new trip.  (TripHistory reacts to         *)
(* historyRefreshToken and focusTripId through its own effects.)           *)
(***************************************************************************)
RECURSIVE SumSeq(_)
SumSeq(q) == IF q = << >> THEN 0 ELSE q[1] + SumSeq(Tail(q))

\* BudgetAllocator (backend): each bucket gets its share of the total,
\* rounded down to the minor unit, and the rounding remainder goes to the
\* largest bucket; no total, no breakdown
Totals == {0, 1001, 10000}
RatioSets == {<<50, 30, 20>>, <<33, 33, 33>>, <<60, 40>>}
Shares(total, ratios) == [k \in DOMAIN ratios |-> (total * ratios[k]) \div 100]
Largest(shares) ==
  CHOOSE k \in DOMAIN shares :
    \A j \in DOMAIN shares : shares[j] < shares[k] \/ (shares[j] = shares[k] /\ k <= j)
Allocate(total, ratios) ==
  IF total = 0 THEN << >>
  ELSE LET shares == Shares(total, ratios)
           remainder == total - SumSeq(shares)
       IN  [k \in DOMAIN ratios |->
              [category |-> k,
               amount |-> IF k = Largest(shares) THEN shares[k] + remainder
                          ELSE shares[k]]]

\* ItineraryGenerator (backend): the answers to POST /itineraries; tripId
\* is absent when the plan was not persisted
PlanResponses ==
  {[itinerary |-> "plan",
    budget |-> [total |-> total, currency |-> "CNY",
                breakdown |-> Allocate(total, ratios)],
    tripId |-> id] :
     total \in Totals, ratios \in RatioSets, id \in {Null, Some("A")}}

\* variant: the submit button stays enabled during a generation
SubmitDisabled_never == FALSE

\* <button type="submit" disabled={loading}>
SubmitDisabled == planner.loading

\* handleSubmit up to its await; inflight counts the posts not yet handled
PlannerSubmit ==
  /\ ~SubmitDisabled
  /\ home.historyRefreshToken < MaxPlans
  /\ planner.inflight < MaxPlans
  /\ planner' = [planner EXCEPT !.loading = TRUE, !.error = Null,
                                !.stage = "sent", !.resp = Null,
                                !.inflight = @ + 1]
  /\ UNCHANGED home

\* POST /api/itineraries answered by the backend through the route
PlannerBackendOk(response) ==
  /\ planner.stage = "sent"
  /\ planner' = [planner EXCEPT !.stage = "ok", !.resp = Some(response)]
  /\ UNCHANGED home

PlannerBackendFail ==
  /\ planner.stage = "sent"
  /\ planner' = [planner EXCEPT !.stage = "fail"]
  /\ UNCHANGED home

\* HomeClient.resetHomepageMap
resetHomepageMap(h) ==
  [h EXCEPT !.latestMapTripId = Null, !.latestMapError = Null,
            !.latestMapLoading = FALSE]

\* variant: a plan without tripId only resets the homepage map
onPlanCreated_quietWhenNotPersisted(h, tripId) ==
  LET refreshed == [h EXCEPT !.historyRefreshToken = @ + 1]
  IN  IF tripId = Null \/ tripId = Some("")
      THEN resetHomepageMap(refreshed)
      ELSE IF h.session
      THEN [refreshed EXCEPT !.focusTripId = tripId, !.latestMapTripId = tripId,
                             !.latestMapError = Null, !.latestMapLoading = TRUE]
      ELSE [resetHomepageMap(refreshed) EXCEPT
              !.latestMapTripId = tripId, !.latestMapError = Some("login")]

\* the onPlanCreated callback HomeClient passes to PlannerForm
onPlanCreated(h, tripId) ==
  LET refreshed == [h EXCEPT !.historyRefreshToken = @ + 1]
  IN  IF tripId = Null \/ tripId = Some("")
      THEN [resetHomepageMap(refreshed) EXCEPT !.latestMapError = Some("not archived")]
      ELSE IF h.session
      THEN [refreshed EXCEPT !.focusTripId = tripId, !.latestMapTripId = tripId,
                             !.latestMapError = Null, !.latestMapLoading = TRUE]
      ELSE [resetHomepageMap(refreshed) EXCEPT
              !.latestMapTripId = tripId, !.latestMapError = Some("login")]

\* handleSubmit after its await
PlannerResponse ==
  /\ planner.stage \in {"ok", "fail"}
  /\ IF planner.stage = "ok"
     THEN /\ planner' = [planner EXCEPT !.result = planner.resp, !.loading = FALSE,
                                        !.stage = "idle", !.resp = Null,
                                        !.inflight = @ - 1]
          /\ home' = onPlanCreated(home, planner.resp[1].tripId)
     ELSE /\ planner' = [planner EXCEPT !.error = Some("generate"), !.loading = FALSE,
                                        !.stage = "idle", !.resp = Null,
                                        !.inflight = @ - 1]
          /\ UNCHANGED home

\* variant: only the first two buckets are listed
ShownBreakdown_firstTwo(result) ==
  [k \in 1..(IF Len(result.budget.breakdown) < 2 THEN Len(result.budget.breakdown) ELSE 2)
     |-> result.budget.breakdown[k].amount]

\* the amounts PlannerForm lists under the total
ShownBreakdown(result) ==
  [k \in DOMAIN result.budget.breakdown |-> result.budget.breakdown[k].amount]

PlannerNext ==
  /\ UNCHANGED <<ledgerVars, voiceVars, ops, tripVersion, routeVars, schemaVars,
                 speechVars, userId>>
  /\ \/ PlannerSubmit
     \/ \E response \in PlanResponses : PlannerBackendOk(response)
     \/ PlannerBackendFail
     \/ PlannerResponse

SpecPlanner == Init /\ [][PlannerNext]_vars

\* the post settles (axios resolves or rejects) and the continuation of
\* handleSubmit, its finally block included, then runs on the event loop
SpecPlannerLive ==
  Init /\ [][PlannerNext]_vars /\ WF_vars(PlannerNext /\ planner.loading)

(***************************************************************************)
(* The tables trips and expenses of supabase/schema.sql, with the          *)
(* statements their column constraints admit: primary keys, NOT NULL,      *)
(* and the foreign key expenses.trip_id -> trips(id) ON DELETE CASCADE.    *)
(***************************************************************************)
Users == {"u1", "u2"}
RowIds == 1..MaxRows

TripRowIds == {t.id : t \in tripsTable}
ExpenseRowIds == {e.id : e \in expensesTable}

\* trip_id uuid references trips: a NULL reference is not checked
ForeignKeyHolds(trip_id) ==
  IF trip_id = Null THEN TRUE ELSE trip_id[1] \in TripRowIds

\* insert into trips: id is the primary key, owner_id is NOT NULL
InsertTrip(id, owner_id) ==
  /\ id \notin TripRowIds
  /\ tripsTable' = tripsTable \cup {[id |-> id, owner_id |-> owner_id]}
  /\ UNCHANGED expensesTable

\* delete from trips: ON DELETE CASCADE removes the trip's expenses
DeleteTrip(id) ==
  /\ id \in TripRowIds
  /\ tripsTable' = {t \in tripsTable : t.id # id}
  /\ expensesTable' = {e \in expensesTable : e.trip_id # Some(id)}

\* insert into expenses: id is the primary key, trip_id the foreign key
InsertExpense(id, trip_id) ==
  /\ id \notin ExpenseRowIds
  /\ ForeignKeyHolds(trip_id)
  /\ expensesTable' = expensesTable \cup {[id |-> id, trip_id |-> trip_id]}
  /\ UNCHANGED tripsTable

\* delete from expenses
DeleteExpense(id) ==
  /\ id \in ExpenseRowIds
  /\ expensesTable' = {e \in expensesTable : e.id # id}
  /\ UNCHANGED tripsTable

SchemaNext ==
  /\ UNCHANGED <<ledgerVars, voiceVars, ops, tripVersion, routeVars, plannerVars,
                 speechVars, userId>>
  /\ UNCHANGED <<rlsActor, rlsSeen>>
  /\ \/ \E id \in RowIds, owner_id \in Users : InsertTrip(id, owner_id)
     \/ \E id \in RowIds : DeleteTrip(id)
     \/ \E id \in RowIds, trip_id \in {Null} \cup {Some(t) : t \in RowIds} :
          InsertExpense(id, trip_id)
     \/ \E id \in RowIds : DeleteExpense(id)

SpecSchema == Init /\ [][SchemaNext]_vars

(***************************************************************************)
(* The same tables under row level security: every statement is issued by  *)
(* a signed-in user u (auth.uid() = u).  A policy "for all using (e)"       *)
(* without WITH CHECK applies e both to the rows a statement can see and    *)
(* to the rows it writes.                                                   *)
(***************************************************************************)
\* variant: a policy that lets every signed-in user through
TripPolicy_anyUser(u, t) == u \in Users

\* using (owner_id = auth.uid())
TripPolicy(u, t) == t.owner_id = u

\* using (trip_id in (select id from trips where owner_id = auth.uid()))
ExpensePolicy(u, e, tripRows) ==
  IF e.trip_id = Null THEN FALSE
  ELSE \E t \in tripRows : t.id = e.trip_id[1] /\ TripPolicy(u, t)

Statement(u, rows) ==
  /\ rlsActor' = Some(u)
  /\ rlsSeen' = rows

RlsSelectTrips(u) ==
  /\ Statement(u, [table |-> "trips", rows |-> {t \in tripsTable : TripPolicy(u, t)}])
  /\ UNCHANGED <<tripsTable, expensesTable>>

RlsSelectExpenses(u) ==
  /\ Statement(u, [table |-> "expenses",
                   rows |-> {e \in expensesTable : ExpensePolicy(u, e, tripsTable)}])
  /\ UNCHANGED <<tripsTable, expensesTable>>

RlsInsertTrip(u, id, owner_id) ==
  /\ TripPolicy(u, [id |-> id, owner_id |-> owner_id])
  /\ InsertTrip(id, owner_id)
  /\ Statement(u, NoRows)

\* update trips set owner_id = ... where id = ...
RlsUpdateTrip(u, id, owner_id) ==
  /\ \E t \in tripsTable : t.id = id /\ TripPolicy(u, t)
  /\ TripPolicy(u, [id |-> id, owner_id |-> owner_id])
  /\ tripsTable' = {t \in tripsTable : t.id # id} \cup {[id |-> id, owner_id |-> owner_id]}
  /\ UNCHANGED expensesTable
  /\ Statement(u, NoRows)

RlsDeleteTrip(u, id) ==
  /\ \E t \in tripsTable : t.id = id /\ TripPolicy(u, t)
  /\ DeleteTrip(id)
  /\ Statement(u, NoRows)

RlsInsertExpense(u, id, trip_id) ==
  /\ ExpensePolicy(u, [id |-> id, trip_id |-> trip_id], tripsTable)
  /\ InsertExpense(id, trip_id)
  /\ Statement(u, NoRows)

\* update expenses set trip_id = ... where id = ...
RlsUpdateExpense(u, id, trip_id) ==
  /\ \E e \in expensesTable :
       e.id = id /\ ExpensePolicy(u, e, tripsTable) /\ e.trip_id # trip_id
  /\ ForeignKeyHolds(trip_id)
  /\ ExpensePolicy(u, [id |-> id, trip_id |-> trip_id], tripsTable)
  /\ expensesTable' = {e \in expensesTable : e.id # id}
                        \cup {[id |-> id, trip_id |-> trip_id]}
  /\ UNCHANGED tripsTable
  /\ Statement(u, NoRows)

RlsDeleteExpense(u, id) ==
  /\ \E e \in expensesTable : e.id = id /\ ExpensePolicy(u, e, tripsTable)
  /\ DeleteExpense(id)
  /\ Statement(u, NoRows)

RlsNext ==
  /\ UNCHANGED <<ledgerVars, voiceVars, ops, tripVersion, routeVars, plannerVars,
                 speechVars, userId>>
  /\ \E u \in Users :
       \/ RlsSelectTrips(u)
       \/ RlsSelectExpenses(u)
       \/ \E id \in RowIds, owner_id \in Users : RlsInsertTrip(u, id, owner_id)
       \/ \E id \in RowIds, owner_id \in Users : RlsUpdateTrip(u, id, owner_id)
       \/ \E id \in RowIds : RlsDeleteTrip(u, id)
       \/ \E id \in RowIds, trip_id \in {Null} \cup {Some(t) : t \in RowIds} :
            RlsInsertExpense(u, id, trip_id)
       \/ \E id \in RowIds, trip_id \in {Null} \cup {Some(t) : t \in RowIds} :
            RlsUpdateExpense(u, id, trip_id)
       \/ \E id \in RowIds : RlsDeleteExpense(u, id)

SpecRls == Init /\ [][RlsNext]_vars

(***************************************************************************)
(* Speech recognition sessions of TripHistory.  handleVoiceStart creates a *)
(* recognition object and keeps it in recognitionRef; stop() and abort()   *)
(* only ask the session to end: its onend callback runs later.  The        *)
(* actions above describe the React state of these handlers, the actions   *)
(* here add the recognition objects and the reference.                     *)
(***************************************************************************)
SessionIds == 1..MaxSessions
Listening == {id \in SessionIds : sessions[id] = "listening"}
NotEnded == {id \in SessionIds : sessions[id] \in {"listening", "stopping"}}
Unused == {id \in SessionIds : sessions[id] = "unused"}

\* new RecognitionCtor(); recognition.start() succeeded
StartRecognition ==
  /\ Unused # {}
  /\ handleVoiceStart
  /\ LET id == CHOOSE n \in Unused : \A m \in Unused : n <= m
     IN  /\ sessions' = [sessions EXCEPT ![id] = "listening"]
         /\ recognitionRef' = Some(id)

\* recognition.start() threw: the catch branch of handleVoiceStart
StartRecognitionThrows ==
  /\ UNCHANGED ops
  /\ selectedTrip # Null
  /\ ~isListening
  /\ ~parseLoading
  /\ voiceError' = Some("start")
  /\ voiceTranscript' = Null
  /\ voiceConfidence' = Null
  /\ isListening' = FALSE
  /\ recognitionRef' = Null
  /\ UNCHANGED <<ledgerVars, parseLoading, sessions>>

\* handleVoiceStop: nothing without a reference, else recognition.stop()
StopRecognition ==
  /\ recognitionRef # Null
  /\ handleVoiceStop
  /\ sessions' = [sessions EXCEPT ![recognitionRef[1]] = "stopping"]
  /\ recognitionRef' = Null

\* recognition.onresult of the listening session, with a transcript
onresult(id, collected) ==
  /\ sessions[id] = "listening"
  /\ parseVoiceContent(collected)
  /\ recognitionRef' = Null
  /\ sessions' = [sessions EXCEPT ![id] = "stopping"]

\* recognition.onend = () => { setIsListening(false); recognitionRef.current = null }
onend(id) ==
  /\ UNCHANGED ops
  /\ id \in NotEnded
  /\ sessions' = [sessions EXCEPT ![id] = "ended"]
  /\ isListening' = FALSE
  /\ recognitionRef' = Null
  /\ UNCHANGED <<ledgerVars, parseLoading, voiceError, voiceTranscript,
                 voiceConfidence>>

\* recognition.onerror: the message, then recognition.stop()
onerror(id) ==
  /\ UNCHANGED ops
  /\ sessions[id] = "listening"
  /\ voiceError' = Some("recognition")
  /\ isListening' = FALSE
  /\ recognitionRef' = Null
  /\ sessions' = [sessions EXCEPT ![id] = "stopping"]
  /\ UNCHANGED <<ledgerVars, parseLoading, voiceTranscript, voiceConfidence>>

\* handleViewDetail begins with recognitionRef.current?.abort()
ViewDetailAborting(k) ==
  /\ handleViewDetail(k)
  /\ sessions' = IF recognitionRef = Null THEN sessions
                 ELSE [sessions EXCEPT ![recognitionRef[1]] = "stopping"]
  /\ recognitionRef' = Null

SpeechNext ==
  /\ UNCHANGED <<tripVersion, routeVars, plannerVars, schemaVars, userId>>
  /\ \/ UNCHANGED speechVars /\ Backend
     \/ UNCHANGED speechVars /\ \E i \in Slots : LoadTripsResponse(i)
     \/ \E k \in 1..Cardinality(TripIds) : selectedTrip = Null /\ ViewDetailAborting(k)
     \/ UNCHANGED speechVars /\ \E i \in Slots : DetailResponse(i)
     \/ UNCHANGED speechVars /\ \E i \in Slots : ExpensesResponse(i)
     \/ StartRecognition
     \/ StartRecognitionThrows
     \/ StopRecognition
     \/ \E id \in SessionIds, t \in Transcripts : onresult(id, t)
     \/ \E id \in SessionIds : onend(id)
     \/ \E id \in SessionIds : onerror(id)
     \/ UNCHANGED speechVars
          /\ \E i \in Slots : \E c \in ParseCandidates : ParseBackendOk(i, c)
     \/ UNCHANGED speechVars /\ \E i \in Slots : ParseResponse(i)

SpecSpeech == Init /\ [][SpeechNext]_vars

(***************************************************************************)
(* Sign-out.  HomeClient passes session?.user.id ?? null to TripHistory,   *)
(* which stays mounted: when userId becomes null the loadTrips effect      *)
(* clears its state and HomeClient's effect resets the refresh token, the  *)
(* focused trip and the homepage map.  Requests in flight are not          *)
(* cancelled.                                                              *)
(***************************************************************************)
SignOut ==
  /\ UNCHANGED ops
  /\ userId # Null
  /\ userId' = Null
  /\ trips' = << >>
  /\ selectedTrip' = Null
  /\ expenses' = << >>
  /\ voiceTranscript' = Null
  /\ voiceConfidence' = Null
  /\ voiceError' = Null
  /\ parseLoading' = FALSE
  /\ isListening' = FALSE
  /\ sessions' = IF recognitionRef = Null THEN sessions
                 ELSE [sessions EXCEPT ![recognitionRef[1]] = "stopping"]
  /\ recognitionRef' = Null
  /\ home' = [resetHomepageMap(home) EXCEPT
                !.historyRefreshToken = 0, !.focusTripId = Null, !.session = FALSE]
  /\ UNCHANGED <<db, nextId, expenseError, detailError, draft, editingExpenseId,
                 editDraft, reqs, planner>>

\* the continuation of handleViewDetail after the detail request, run while
\* signed out: setSelectedTrip(response.data) changes selectedTripId, so
\* the loadTrips effect runs again and, without userId, clears the state;
\* the continuation goes on to request the expenses
DetailResponseSignedOut(i) ==
  /\ UNCHANGED ops
  /\ userId = Null
  /\ reqs[i] # Null
  /\ reqs[i][1].kind = "detail"
  /\ reqs[i][1].stage \in {"ok", "fail"}
  /\ LET r == reqs[i][1]
     IN  /\ IF r.stage = "ok"
            THEN /\ trips' = << >>
                 /\ expenses' = << >>
                 /\ voiceTranscript' = Null
                 /\ voiceConfidence' = Null
                 /\ voiceError' = Null
                 /\ parseLoading' = FALSE
                 /\ isListening' = FALSE
                 /\ UNCHANGED detailError
            ELSE /\ detailError' = Some("detail")
                 /\ UNCHANGED <<trips, expenses, voiceVars>>
         /\ selectedTrip' = Null
         /\ reqs' = [reqs EXCEPT ![i] = Some(Request("expenses", [trip |-> r.trip]))]
  /\ UNCHANGED <<db, nextId, expenseError, draft, editingExpenseId, editDraft>>

SignOutNext ==
  /\ UNCHANGED <<tripVersion, routeVars, schemaVars>>
  /\ \/ UNCHANGED <<plannerVars, speechVars, userId>> /\ Backend
     \/ UNCHANGED <<plannerVars, speechVars, userId>>
          /\ \E i \in Slots : LoadTripsResponse(i)
     \/ UNCHANGED <<plannerVars, speechVars, userId>>
          /\ \E k \in 1..Cardinality(TripIds) :
               userId # Null /\ selectedTrip = Null /\ handleViewDetail(k)
     \/ UNCHANGED <<plannerVars, speechVars, userId>>
          /\ \E i \in Slots : userId # Null /\ DetailResponse(i)
     \/ UNCHANGED <<plannerVars, speechVars, userId>>
          /\ \E i \in Slots : DetailResponseSignedOut(i)
     \/ UNCHANGED <<plannerVars, speechVars, userId>>
          /\ \E i \in Slots : ExpensesResponse(i)
     \/ SignOut

SpecSignOut == Init /\ [][SignOutNext]_vars

(***************************************************************************)
(* Properties.                                                             *)
(***************************************************************************)
Selected == selectedTrip[1]
ShownTotal == Coalesce(Selected.total_expenses, 0)
Answered(i, kind, stage) ==
  reqs[i] # Null /\ reqs[i][1].kind = kind /\ reqs[i][1].stage = stage
SameTripShown == selectedTrip # Null /\ selectedTrip' # Null

\* C1: whenever a trip is shown, no request is in flight, no error is
\* displayed and the displayed list holds the expenses the trip has, the
\* shown total_expenses equals the sum of the amounts in the displayed list.
C1_TotalEqualsListSum ==
  (/\ selectedTrip # Null /\ Idle /\ expenseError = Null /\ detailError = Null
   /\ expenses = ExpenseRows(db, Selected.id))
    => ShownTotal = SumAmounts(expenses)

\* C2: the continuation of a successful create adds exactly the amount of
\* that create to the shown total, also while another create is in flight,
\* and leaves the other request in flight; so two overlapping creates of a
\* and b add a + b in either order of arrival.
C2_ConcurrentCreatesAdd ==
  [][\A i \in Slots :
       (Answered(i, "create", "ok") /\ CreateResponse(i) /\ SameTripShown)
         => /\ ShownTotal' = ShownTotal + reqs[i][1].amount
            /\ \A j \in Slots \ {i} : reqs'[j] = reqs[j]]_vars

\* the create of 180, answered second by the backend, has been added to the
\* list and the total while the create of 200, answered first, still waits
C2_Witness ==
  \E j \in Slots :
    /\ Answered(j, "create", "ok")
    /\ reqs[j][1].amount = 200 /\ reqs[j][1].resp[1].id = 1
    /\ selectedTrip # Null /\ ShownTotal = 180
    /\ expenses = <<[id |-> 2, amount |-> 180]>>

\* C3: the continuation of a successful delete whose expense is no longer
\* in the displayed list (an earlier delete of the same row has already
\* removed it) changes neither total_expenses nor remaining_budget.
C3_RepeatedDeleteKeepsTotal ==
  [][\A i \in Slots :
       (/\ Answered(i, "delete", "ok") /\ DeleteResponse(i) /\ SameTripShown
        /\ \A k \in DOMAIN expenses : expenses[k].id # reqs[i][1].exp[1].id)
         => /\ Selected'.total_expenses = Selected.total_expenses
            /\ Selected'.remaining_budget = Selected.remaining_budget]_vars

\* C4: the continuation of a successful update from x (the amount of the
\* submitted row) to y moves the shown total by y - x in one step.
C4_UpdateIsOneDelta ==
  [][\A i \in Slots :
       (Answered(i, "update", "ok") /\ UpdateResponse(i) /\ SameTripShown)
         => ShownTotal' = ShownTotal + (reqs[i][1].amount - reqs[i][1].exp[1].amount)]_vars

\* the backend has carried out the update of row 1 from 180 to 200 and the
\* continuation is about to apply it to the shown total of 180
C4_Witness ==
  \E i \in Slots :
    /\ Answered(i, "update", "ok")
    /\ reqs[i][1].exp[1] = [id |-> 1, amount |-> 180] /\ reqs[i][1].amount = 200
    /\ db[1] # Null /\ db[1][1].amount = 200
    /\ selectedTrip # Null /\ ShownTotal = 180

\* C5: when ledger operations run one at a time, the continuation of a
\* successful create of a moves total_expenses by +a and remaining_budget
\* by -a, of a successful update from x to y by y - x and x - y, and of a
\* successful delete of a by -a and +a (remaining_budget only when the
\* trip has a total_budget).
LedgerDelta(r) ==
  CASE r.kind = "create" -> r.amount
    [] r.kind = "update" -> r.amount - r.exp[1].amount
    [] r.kind = "delete" -> 0 - r.exp[1].amount
    [] OTHER -> 0

LedgerResponse(i) ==
  CreateResponse(i) \/ UpdateResponse(i) \/ DeleteResponse(i)

C5_SequentialDeltas ==
  [][\A i \in Slots :
       (/\ reqs[i] # Null /\ reqs[i][1].kind \in LedgerKinds
        /\ reqs[i][1].stage = "ok" /\ LedgerResponse(i) /\ SameTripShown)
         => /\ ShownTotal' = ShownTotal + LedgerDelta(reqs[i][1])
            /\ Selected.total_budget # Null =>
                 /\ Selected.remaining_budget # Null
                 /\ Selected'.remaining_budget =
                      Some(Selected.remaining_budget[1] - LedgerDelta(reqs[i][1]))]_vars

\* the state after create 180 and update to 200 on the budget of 10000
C5_Witness ==
  /\ selectedTrip # Null /\ Idle /\ ops = 2
  /\ Selected.total_budget = Some(10000)
  /\ expenses = <<[id |-> 1, amount |-> 200]>>
  /\ Selected.total_expenses = Some(200)
  /\ Selected.remaining_budget = Some(9800)

C7_FailedOperationHasNoEffect ==
  [][\A i \in Slots :
       /\ (/\ reqs[i] # Null /\ reqs[i][1].kind \in LedgerKinds
           /\ reqs[i][1].stage = "fail" /\ LedgerResponse(i))
            => /\ expenses' = expenses
               /\ selectedTrip' = selectedTrip
               /\ expenseError' # Null
       /\ (/\ reqs[i] # Null /\ reqs[i][1].kind \in LedgerKinds
           /\ BackendFail(i))
            => db' = db]_vars

\* the state after a failed create on a trip with one expense of 180
C7_Witness ==
  /\ selectedTrip # Null /\ Idle /\ ops = 1
  /\ expenseError = Some("create")
  /\ expenses = <<[id |-> 1, amount |-> 180]>>
  /\ Selected.total_expenses = Some(180)
  /\ Selected.remaining_budget = Some(9820)
  /\ db[2] = Null

\* C8: the continuation of a parse answered with amount = null leaves the
\* amount of the expense draft exactly as it is.
C8_NullAmountKeepsDraftAmount ==
  [][\A i \in Slots :
       (/\ Answered(i, "parse", "ok") /\ ParseResponse(i)
        /\ reqs[i][1].resp[1].amount = Null)
         => draft'.amount = draft.amount]_vars

\* the state after the answer (amount null, currency usd, confidence 0.87)
\* was applied to a draft holding the amount 200
C8_Witness ==
  /\ Idle /\ ~parseLoading
  /\ voiceConfidence = Some(870)
  /\ draft = [amount |-> "200", currency |-> "USD"]

\* C9: the continuation of a failed parse leaves the expense draft
\* unchanged, issues no request, sets voiceError and resets parseLoading.
C9_FailedParseIsNoParse ==
  [][\A i \in Slots :
       (Answered(i, "parse", "fail") /\ ParseResponse(i))
         => /\ draft' = draft
            /\ \A j \in Slots : reqs'[j] # Null => reqs'[j] = reqs[j]
            /\ ops' = ops
            /\ voiceError' # Null
            /\ parseLoading' = FALSE]_vars

\* the state after a failed parse with a draft holding the amount 200
C9_Witness ==
  /\ Idle /\ ~parseLoading
  /\ voiceError = Some("parse")
  /\ draft = [amount |-> "200", currency |-> "CNY"]

\* C10: handleExpenseSubmit and handleExpenseUpdate send a request only
\* when the amount field denotes a number >= 0; with an empty, non-numeric
\* or negative amount field they send nothing, change neither the list nor
\* the aggregate, and set expenseError.
DenotesAmount(text) == \E n \in NumericValues : n >= 0 /\ NumToString(n) = text

C10_InvalidAmountSendsNothing ==
  [][/\ (handleExpenseSubmit /\ ~DenotesAmount(draft.amount))
        => /\ reqs' = reqs /\ expenses' = expenses /\ selectedTrip' = selectedTrip
           /\ expenseError' # Null
     /\ \A k \in DOMAIN expenses :
          (handleExpenseUpdate(k) /\ ~DenotesAmount(editDraft[1].amount))
            => /\ reqs' = reqs /\ expenses' = expenses /\ selectedTrip' = selectedTrip
               /\ expenseError' # Null]_vars

Handled == call[1].request

\* C11: the parse route answers a request whose content is missing, not a
\* string, empty or only whitespace with 400 and does not send it on to the
\* backend.
C11_BlankContentRejected ==
  [][(/\ call # Null /\ RouteHandle /\ Handled.route = "parse.POST"
      /\ \/ Handled.content.type # "string"
         \/ Trim(Handled.content.text) = "")
       => /\ call'[1].stage = "answered"
          /\ call'[1].status = 400
          /\ forwards' = forwards]_vars

C16_BackendStatusPassedOn ==
  [][(call # Null /\ RouteRespond /\ ~Ok(call[1].backendStatus))
       => /\ call'[1].status = call[1].backendStatus
          /\ call'[1].body = "message"]_vars

\* the trip route has answered 404 to a 404 of the backend
C16_Witness ==
  /\ call # Null /\ call[1].stage = "answered"
  /\ Handled.route = "trip.GET"
  /\ call[1].backendStatus = 404 /\ call[1].status = 404

\* C17: POST of the expenses route answers 201 with the backend's payload,
\* and DELETE answers 204 with an empty body, exactly when the backend's
\* response was ok.
C17_SuccessOnlyWhenBackendOk ==
  [][(call # Null /\ RouteRespond)
       => /\ Handled.route = "expenses.POST" =>
               /\ Ok(call[1].backendStatus) <=> call'[1].status = 201
               /\ Ok(call[1].backendStatus) <=> call'[1].body = "payload"
          /\ Handled.route = "expenses.DELETE" =>
               /\ Ok(call[1].backendStatus) <=> call'[1].status = 204
               /\ Ok(call[1].backendStatus) <=> call'[1].body = "empty"
          /\ ~Ok(call[1].backendStatus) => call'[1].status \notin {201, 204}]_vars

\* DELETE has answered 204 to an ok backend response that removed the row
C17_Witness ==
  /\ call # Null /\ call[1].stage = "answered"
  /\ Handled.route = "expenses.DELETE"
  /\ call[1].backendStatus = 200 /\ call[1].status = 204 /\ call[1].body = "empty"
  /\ db[1] = Null /\ nextId = 2

\* C12: the continuation of a parse whose trip is no longer the selected
\* one (the detail panel was collapsed or another trip opened while the
\* request was in flight) changes neither the expense draft nor
\* voiceConfidence, and parseLoading is false before and after it.
C12_AbandonedParseLeavesNoState ==
  [][\A i \in Slots :
       (/\ reqs[i] # Null /\ reqs[i][1].kind = "parse"
        /\ reqs[i][1].stage \in {"ok", "fail"}
        /\ reqs[i][1].trip # selectedTripId
        /\ ParseResponse(i))
         => /\ draft' = draft
            /\ voiceConfidence' = voiceConfidence
            /\ ~parseLoading /\ ~parseLoading']_vars

\* C13: whenever the selected trip shows an itinerary, its budget breakdown
\* is the breakdown of the same version of the trip.
C13_ItineraryAndBreakdownSameVersion ==
  (selectedTrip # Null /\ Selected.generated_itinerary # Null)
    => Selected.generated_itinerary[1] = Selected.budget_breakdown

\* C14: the continuation of a successful generation without tripId shows
\* the plan, sets no error field (PlannerForm.error and HomeClient's
\* latestMapError are null afterwards) and focuses no trip.
C14_NoTripIdIsNotAnError ==
  [][(/\ planner.stage = "ok" /\ planner.resp[1].tripId = Null
      /\ PlannerResponse)
       => /\ planner'.result = planner.resp
          /\ planner'.error = Null
          /\ home'.latestMapError = Null
          /\ home'.focusTripId = home.focusTripId]_vars

C19_ExpenseReferencesTrip ==
  \A e \in expensesTable : e.trip_id # Null /\ e.trip_id[1] \in TripRowIds

\* C20: when the currency field of the expense form is empty at submit,
\* the currency sent in the create request is the selected trip's currency.
C20_EmptyCurrencyTakesTripCurrency ==
  [][(/\ handleExpenseSubmit
      /\ draft.currency = ""
      /\ selectedTrip[1].currency # Null)
       => \A i \in Slots :
            (reqs[i] = Null /\ reqs'[i] # Null)
              => reqs'[i][1].payloadCurrency = selectedTrip[1].currency[1]]_vars

\* C21: the expense draft's currency is always an uppercase code of at
\* most 3 letters, after any edit of the field and after any voice prefill.
C21_DraftCurrencyIsShortUppercase ==
  /\ draft.currency = ToUpperCase(draft.currency)
  /\ StringLength(draft.currency) <= 3

\* C22: the confidence percentage shown is an integer between 0 and 100
\* for every confidence a parse returned, and nothing is shown when the
\* confidence is null.
C22_ConfidenceDisplayClamped ==
  /\ voiceConfidence = Null <=> voiceConfidenceDisplay = Null
  /\ voiceConfidenceDisplay # Null => voiceConfidenceDisplay[1] \in 0..100

\* a parse answered with confidence 1.5 and 100 is shown
C22_Witness ==
  /\ ~parseLoading
  /\ voiceTranscript # Null
  /\ voiceConfidence = Some(1500)
  /\ voiceConfidenceDisplay = Some(100)

\* C23: the continuation of a create issued while another trip was
\* selected changes neither the expense list nor total_expenses nor
\* remaining_budget of the trip that is selected now.
C23_OtherTripUntouched ==
  [][\A i \in WideSlots :
       (/\ CreateResponse(i)
        /\ selectedTrip # Null
        /\ reqs[i][1].trip # selectedTripId)
         => /\ expenses' = expenses
            /\ selectedTrip'[1].total_expenses = selectedTrip[1].total_expenses
            /\ selectedTrip'[1].remaining_budget = selectedTrip[1].remaining_budget]_vars

\* C27: a detail or expenses response of a trip that is no longer the
\* selected one (another trip was opened, or the panel was collapsed)
\* changes neither the selected trip nor the expense list.
C27_LastSelectionWins ==
  [][\A i \in WideSlots :
       /\ (DetailResponse(i) /\ reqs[i][1].trip # selectedTripId)
            => selectedTrip' = selectedTrip
       /\ (ExpensesResponse(i) /\ reqs[i][1].trip # selectedTripId)
            => expenses' = expenses]_vars

\* C24: a statement of user u returns only trips owned by u and expenses
\* of trips owned by u, and leaves every trips row of another owner and
\* every expenses row that is not of a trip of u as it was.
OthersTrips(u, tripRows) == {t \in tripRows : t.owner_id # u}
OthersExpenses(u, expenseRows, tripRows) ==
  {e \in expenseRows : ~ExpensePolicy(u, e, tripRows)}
C24_RowLevelSecurity ==
  [][rlsActor' # Null =>
       LET u == rlsActor'[1]
       IN  /\ OthersTrips(u, tripsTable') = OthersTrips(u, tripsTable)
           /\ OthersExpenses(u, expensesTable', tripsTable')
                = OthersExpenses(u, expensesTable, tripsTable)
           /\ rlsSeen'.table = "trips" => \A t \in rlsSeen'.rows : t.owner_id = u
           /\ rlsSeen'.table = "expenses" =>
                \A e \in rlsSeen'.rows :
                  \E t \in tripsTable : t.id = e.trip_id[1] /\ t.owner_id = u]_vars

\* both users own a trip with an expense, and u1 has just read its trips
C24_Witness ==
  /\ tripsTable = {[id |-> 1, owner_id |-> "u1"], [id |-> 2, owner_id |-> "u2"]}
  /\ expensesTable = {[id |-> 1, trip_id |-> Some(1)], [id |-> 2, trip_id |-> Some(2)]}
  /\ rlsActor = Some("u1")
  /\ rlsSeen = [table |-> "trips", rows |-> {[id |-> 1, owner_id |-> "u1"]}]

\* C25: once the response of a refresh of the trip list and the response
\* of a create that overlapped it have been handled, in either order,
\* total_expenses of the selected trip equals the server's sum for it.
C25_RefreshCountsMutationOnce ==
  (Idle /\ selectedTrip # Null /\ ops > 0)
    => selectedTrip[1].total_expenses
         = Some(TotalExpenses(db, selectedTrip[1].id))

\* C26: the continuation of a successful update moves total_expenses by
\* the new amount minus the amount the listed expense had before this
\* update, also when two updates of the expense overlap, so the total
\* stays the sum of the listed amounts.
C26_OverlappingUpdatesUseActualAmount ==
  [][\A i \in Slots :
       (/\ Answered(i, "update", "ok") /\ UpdateResponse(i) /\ SameTripShown
        /\ ShownTotal = SumAmounts(expenses))
         => ShownTotal' = SumAmounts(expenses')]_vars

\* C28: at most one speech recognition session is listening, and while a
\* session is listening recognitionRef points to it and isListening is
\* true; the onend callback of a session stopped earlier does not take
\* that away from a session started after it.
C28_ListeningSessionIsReferenced ==
  /\ Cardinality(Listening) <= 1
  /\ \A id \in Listening : recognitionRef = Some(id) /\ isListening

\* C29: while nobody is signed in, trips, selectedTrip and expenses are
\* empty, also after responses to requests issued before the sign-out
\* have been handled, and HomeClient's refresh token and focused trip are
\* reset.
C29_SignedOutShowsNothing ==
  userId = Null
    => /\ trips = << >>
       /\ selectedTrip = Null
       /\ expenses = << >>
       /\ home.focusTripId = Null
       /\ home.historyRefreshToken = 0

====
